---- MODULE Spec2Model ----
(***************************************************************************)
(* The control loop of apps/pipelines/slam/puma_pipeline.py (main): the    *)
(* bounded window of scans, the reconstruction trigger, the fusion of the  *)
(* reconstructed patch into the global mesh and the checkpoint writes.     *)
(*                                                                         *)
(* A frame is identified by its scan index.  A mesh is a record of a       *)
(* vertex sequence (each vertex an abstract coordinate, a number) and a    *)
(* triangle sequence (each triangle three 1-based vertex positions).       *)
(***************************************************************************)
EXTENDS Integers, Sequences, FiniteSets

\* ---------------------------------------------------------------- bounds
MaxScans == 5
MaxAccFrame == 3
MaxAccMap == 3
MaxPoint == 4

\* ---------------------------------------------------------------- state
VARIABLES
    pc,              \* position of main: "config", "setup", "loop", "trigger",
                     \* "psr", "fuse", "checkpoint", "done", "error"
    acc_frame_count, \* config.acc_frame_count
    acc_map_count,   \* config.acc_map_count
    odometry_only,   \* --odometry_only
    n_scans,         \* --n_scans, resolved at line 127
    num_files,       \* len(scan_names)
    mapping_enabled, \* line 137
    pbar,            \* the indices the loop has still to visit
    idx,             \* the loop variable
    local_map,       \* deque(maxlen=acc_frame_count) of frames
    mesh,            \* the patch of the latest reconstruction pass
    global_mesh,     \* the accumulated mesh
    scan_count,
    map_count,
    pushed,          \* history: the frames appended to local_map, in order
    passes,          \* history: one record per call of create_mesh_from_map
    files            \* history: one record per file written

vars == <<pc, acc_frame_count, acc_map_count, odometry_only, n_scans, num_files,
          mapping_enabled, pbar, idx, local_map, mesh, global_mesh, scan_count,
          map_count, pushed, passes, files>>

\* ---------------------------------------------------------------- meshes
\* o3d.geometry.TriangleMesh()
EmptyMesh == [vertices |-> <<>>, triangles |-> <<>>]

\* A mesh of one triangle over the three coordinates of c, in that order.
TriMesh(c) == [vertices |-> c, triangles |-> << <<1, 2, 3>> >>]

\* The patches create_mesh_from_map may return: the empty mesh, single
\* triangles over neighbouring coordinates, and the first of them again
\* with its vertices rotated.
PatchSet ==
    {EmptyMesh}
    \cup {TriMesh(<<a, a + 1, a + 2>>) : a \in 1..(MaxPoint - 2)}
    \cup {TriMesh(<<2, 3, 1>>)}

\* The subsequence of s at the positions in keep, from position i on.
RECURSIVE Filter(_, _, _)
Filter(s, keep, i) ==
    IF i > Len(s) THEN <<>>
    ELSE (IF i \in keep THEN <<s[i]>> ELSE <<>>) \o Filter(s, keep, i + 1)

\* Fault variant of MeshAdd: the patch replaces the accumulated mesh.
MeshAdd_Replace(a, b) == b

\* TriangleMesh.operator+=: the vertices and the triangles of b are appended
\* to those of a, b's triangles re-based past a's vertices.
MeshAdd(a, b) ==
    [vertices  |-> a.vertices \o b.vertices,
     triangles |-> a.triangles \o
                   [k \in 1..Len(b.triangles) |->
                       [j \in 1..3 |-> b.triangles[k][j] + Len(a.vertices)]]]

\* The key remove_duplicated_triangles compares: the triangle rotated so
\* that its smallest vertex position comes first (orientation is kept).
RotMin(t) ==
    IF t[1] <= t[2]
    THEN (IF t[1] <= t[3] THEN <<t[1], t[2], t[3]>> ELSE <<t[3], t[1], t[2]>>)
    ELSE (IF t[2] <= t[3] THEN <<t[2], t[3], t[1]>> ELSE <<t[3], t[1], t[2]>>)

\* Fault variant of RemoveDuplicatedTriangles: every copy of a duplicated
\* triangle is dropped, the first included.
RemoveDuplicatedTriangles_DropAll(m) ==
    LET t == m.triangles
        keep == {i \in 1..Len(t) :
                    \A j \in (1..Len(t)) \ {i} : RotMin(t[j]) # RotMin(t[i])}
    IN  [vertices |-> m.vertices, triangles |-> Filter(t, keep, 1)]

\* TriangleMesh.remove_duplicated_triangles: the first triangle of every key
\* is kept, in order; the vertices are untouched.
RemoveDuplicatedTriangles(m) ==
    LET t == m.triangles
        keep == {i \in 1..Len(t) :
                    \A j \in 1..(i - 1) : RotMin(t[j]) # RotMin(t[i])}
    IN  [vertices |-> m.vertices, triangles |-> Filter(t, keep, 1)]

\* TriangleMesh.remove_duplicated_vertices: the first vertex of every
\* coordinate is kept, in order, and the triangles are re-indexed.
RemoveDuplicatedVertices(m) ==
    LET v == m.vertices
        keep == {i \in 1..Len(v) : \A j \in 1..(i - 1) : v[j] # v[i]}
        first(i) == CHOOSE j \in keep : v[j] = v[i]
        new(i) == Cardinality({j \in keep : j <= first(i)})
    IN  [vertices  |-> Filter(v, keep, 1),
         triangles |-> [k \in 1..Len(m.triangles) |->
                           [j \in 1..3 |-> new(m.triangles[k][j])]]]

\* Lines 167-168: triangle dedup followed by vertex dedup.
Dedup(m) == RemoveDuplicatedVertices(RemoveDuplicatedTriangles(m))

\* Lines 166-168: union, then triangle dedup, then vertex dedup.
Fusion(g, patch) ==
    RemoveDuplicatedVertices(RemoveDuplicatedTriangles(MeshAdd(g, patch)))

\* ---------------------------------------------------------------- helpers
\* Fault variant of DequeAppend: an unbounded list, nothing is evicted.
DequeAppend_NoEvict(q, x, maxlen) == Append(q, x)

\* Fault variant of DequeAppend: a full deque drops its newest frame.
DequeAppend_PopRight(q, x, maxlen) ==
    IF Len(q) >= maxlen THEN Append(SubSeq(q, 1, Len(q) - 1), x)
    ELSE Append(q, x)

\* collections.deque(maxlen=maxlen).append(x)
DequeAppend(q, x, maxlen) ==
    IF maxlen = 0 THEN q
    ELSE IF Len(q) >= maxlen THEN Append(Tail(q), x)
    ELSE Append(q, x)

\* puma.utils.get_progress_bar(first_scan, last_scan): a progress bar over
\* range(first_scan, last_scan).
get_progress_bar(first_scan, last_scan) ==
    [k \in 1..(last_scan - first_scan) |-> first_scan + k - 1]

\* Fault variant of TriggerCond: the last frame does not fire.
TriggerCond_NoLast(sc, i, n, k) == sc >= k

\* Fault variant of TriggerCond: the count fires one frame late.
TriggerCond_Late(sc, i, n, k) == sc > k \/ i = n - 1

\* Line 158.
TriggerCond(sc, i, n, k) == sc >= k \/ i = n - 1

\* Fault variant of CheckpointCond: the interval is off by one.
CheckpointCond_Late(mc, c) == mc > c

\* Line 171.
CheckpointCond(mc, c) == mc >= c

\* ---------------------------------------------------------------- Init
Init ==
    /\ pc = "config"
    /\ acc_frame_count \in 1..MaxAccFrame
    /\ acc_map_count \in 1..MaxAccMap
    /\ odometry_only \in BOOLEAN
    /\ n_scans \in -1..MaxScans
    /\ num_files \in 0..MaxScans
    /\ mapping_enabled = FALSE
    /\ pbar = <<>>
    /\ idx = -1
    /\ local_map = <<>>
    /\ mesh = EmptyMesh
    /\ global_mesh = EmptyMesh
    /\ scan_count = 0
    /\ map_count = 0
    /\ pushed = <<>>
    /\ passes = <<>>
    /\ files = <<>>

\* ---------------------------------------------------------------- actions
\* The record of one file written.
FileRec(path, content) ==
    [path |-> path, content |-> content,
     npass |-> Len(passes), npush |-> Len(pushed)]

\* Fault variant of SaveConfig: the configuration is not saved.
SaveConfig_Skip ==
    /\ pc = "config"
    /\ pc' = "setup"
    /\ UNCHANGED <<acc_frame_count, acc_map_count, odometry_only, n_scans,
                   num_files, mapping_enabled, pbar, idx, local_map, mesh,
                   global_mesh, scan_count, map_count, pushed, passes, files>>

\* Lines 87-114: the configuration is loaded, the map name derived and the
\* configuration saved next to the outputs.
SaveConfig ==
    /\ pc = "config"
    /\ files' = Append(files, FileRec("yml", EmptyMesh))
    /\ pc' = "setup"
    /\ UNCHANGED <<acc_frame_count, acc_map_count, odometry_only, n_scans,
                   num_files, mapping_enabled, pbar, idx, local_map, mesh,
                   global_mesh, scan_count, map_count, pushed, passes>>

\* Lines 116-142: poses and scan names are loaded, n_scans resolved, the
\* containers and the counters created, the progress bar built.
Setup ==
    /\ pc = "setup"
    /\ LET n == IF n_scans = -1 THEN num_files ELSE n_scans
       IN  /\ n_scans' = n
           /\ pbar' = get_progress_bar(1, n)
    /\ mesh' = EmptyMesh
    /\ local_map' = <<>>
    /\ global_mesh' = EmptyMesh
    /\ mapping_enabled' = ~odometry_only
    /\ scan_count' = 0
    /\ map_count' = 0
    /\ pc' = "loop"
    /\ UNCHANGED <<acc_frame_count, acc_map_count, odometry_only, num_files,
                   idx, pushed, passes, files>>

\* Lines 143-148: the next index is taken, its scan read, preprocessed,
\* transformed and appended to the window.
Push ==
    /\ pc = "loop"
    /\ pbar # <<>>
    /\ Head(pbar) < num_files
    /\ idx' = Head(pbar)
    /\ pbar' = Tail(pbar)
    /\ local_map' = DequeAppend(local_map, Head(pbar), acc_frame_count)
    /\ pushed' = Append(pushed, Head(pbar))
    /\ pc' = "trigger"
    /\ UNCHANGED <<acc_frame_count, acc_map_count, odometry_only, n_scans,
                   num_files, mapping_enabled, mesh, global_mesh, scan_count,
                   map_count, passes, files>>

\* Line 145: scan_names[idx] past the end of the list raises IndexError.
ReadFail ==
    /\ pc = "loop"
    /\ pbar # <<>>
    /\ Head(pbar) >= num_files
    /\ idx' = Head(pbar)
    /\ pbar' = Tail(pbar)
    /\ pc' = "error"
    /\ UNCHANGED <<acc_frame_count, acc_map_count, odometry_only, n_scans,
                   num_files, mapping_enabled, local_map, mesh, global_mesh,
                   scan_count, map_count, pushed, passes, files>>

\* Fault variant of Trigger: a firing does not reset scan_count.
Trigger_NoReset ==
    /\ pc = "trigger"
    /\ scan_count' = scan_count + 1
    /\ IF TriggerCond(scan_count + 1, idx, n_scans, acc_frame_count)
       THEN pc' = "psr"
       ELSE pc' = "loop"
    /\ UNCHANGED <<acc_frame_count, acc_map_count, odometry_only, n_scans,
                   num_files, mapping_enabled, pbar, idx, local_map, mesh,
                   global_mesh, map_count, pushed, passes, files>>

\* Lines 157-159: the trigger.
Trigger ==
    /\ pc = "trigger"
    /\ IF TriggerCond(scan_count + 1, idx, n_scans, acc_frame_count)
       THEN scan_count' = 0 /\ pc' = "psr"
       ELSE scan_count' = scan_count + 1 /\ pc' = "loop"
    /\ UNCHANGED <<acc_frame_count, acc_map_count, odometry_only, n_scans,
                   num_files, mapping_enabled, pbar, idx, local_map, mesh,
                   global_mesh, map_count, pushed, passes, files>>

\* Fault variant of Reconstruct: the window is cleared after the pass.
Reconstruct_ClearWindow ==
    /\ pc = "psr"
    /\ \E p \in PatchSet :
          /\ mesh' = p
          /\ passes' = Append(passes, [idx |-> idx, window |-> local_map,
                                       patch |-> p, npush |-> Len(pushed),
                                       before |-> global_mesh])
    /\ local_map' = <<>>
    /\ pc' = "fuse"
    /\ UNCHANGED <<acc_frame_count, acc_map_count, odometry_only, n_scans,
                   num_files, mapping_enabled, pbar, idx,
                   global_mesh, scan_count, map_count, pushed, files>>

\* Lines 160-164: create_mesh_from_map(local_map, ...) returns a patch.
Reconstruct ==
    /\ pc = "psr"
    /\ \E p \in PatchSet :
          /\ mesh' = p
          /\ passes' = Append(passes, [idx |-> idx, window |-> local_map,
                                       patch |-> p, npush |-> Len(pushed),
                                       before |-> global_mesh])
    /\ pc' = "fuse"
    /\ UNCHANGED <<acc_frame_count, acc_map_count, odometry_only, n_scans,
                   num_files, mapping_enabled, pbar, idx, local_map,
                   global_mesh, scan_count, map_count, pushed, files>>

\* Lines 166-168: the patch is fused into the global mesh.
Fuse ==
    /\ pc = "fuse"
    /\ global_mesh' = Fusion(global_mesh, mesh)
    /\ pc' = "checkpoint"
    /\ UNCHANGED <<acc_frame_count, acc_map_count, odometry_only, n_scans,
                   num_files, mapping_enabled, pbar, idx, local_map, mesh,
                   scan_count, map_count, pushed, passes, files>>

\* Lines 170-175: the checkpoint scheduler.
Checkpoint ==
    /\ pc = "checkpoint"
    /\ IF CheckpointCond(map_count + 1, acc_map_count)
       THEN /\ map_count' = 0
            /\ files' = Append(files, FileRec("iterm", global_mesh))
       ELSE /\ map_count' = map_count + 1
            /\ files' = files
    /\ pc' = "loop"
    /\ UNCHANGED <<acc_frame_count, acc_map_count, odometry_only, n_scans,
                   num_files, mapping_enabled, pbar, idx, local_map, mesh,
                   global_mesh, scan_count, pushed, passes>>

\* Lines 177-181: after the loop the final map is written when mapping is
\* enabled.
Finish ==
    /\ pc = "loop"
    /\ pbar = <<>>
    /\ files' = IF mapping_enabled
                THEN Append(files, FileRec("final", global_mesh))
                ELSE files
    /\ pc' = "done"
    /\ UNCHANGED <<acc_frame_count, acc_map_count, odometry_only, n_scans,
                   num_files, mapping_enabled, pbar, idx, local_map, mesh,
                   global_mesh, scan_count, map_count, pushed, passes>>

Next ==
    \/ SaveConfig
    \/ Setup
    \/ Push
    \/ ReadFail
    \/ Trigger
    \/ Reconstruct
    \/ Fuse
    \/ Checkpoint
    \/ Finish

Spec == Init /\ [][Next]_vars

\* ---------------------------------------------------------------- claims
\* The elements of a sequence.
Range(s) == {s[k] : k \in 1..Len(s)}

CeilDiv(a, b) == (a + b - 1) \div b

\* The frame indices at which create_mesh_from_map has been called.
FireIdx == {passes[p].idx : p \in 1..Len(passes)}

\* The number of pushes that preceded pass p's window (0 before pass 1).
PushesBefore(p) == IF p = 1 THEN 0 ELSE passes[p - 1].npush

\* The frames pushed since the firing before pass p.
SinceFire(p) == {pushed[k] : k \in (PushesBefore(p) + 1)..passes[p].npush}

\* The frames of the windows of the passes before pass p.
Earlier(p) == UNION {Range(passes[q].window) : q \in 1..(p - 1)}

\* The positions in files of the writes to a path.
Writes(path) == {k \in 1..Len(files) : files[k].path = path}

\* A triangle of coordinates up to rotation, and the triangles and
\* coordinates a mesh represents.
Rot(c) == {<<c[1], c[2], c[3]>>, <<c[2], c[3], c[1]>>, <<c[3], c[1], c[2]>>}

GeoTris(m) ==
    {Rot([j \in 1..3 |-> m.vertices[m.triangles[k][j]]]) :
        k \in 1..Len(m.triangles)}

Coords(m) == Range(m.vertices)

\* C1: a full run with n_scans >= 1 fires the trigger ceil(n_scans / K)
\* times, at every index i with (i + 1) a multiple of K and at n_scans - 1.
C1_TriggerCount ==
    (pc = "done" /\ n_scans >= 1) =>
        /\ Len(passes) = CeilDiv(n_scans, acc_frame_count)
        /\ FireIdx = {i \in 0..(n_scans - 1) :
                         (i + 1) % acc_frame_count = 0 \/ i = n_scans - 1}

\* C2: in odometry-only mode no reconstruction pass runs, nothing is fused
\* into the global mesh and no mesh file, interim or final, is written.
C2_OdometryOnlyIsolation ==
    odometry_only =>
        /\ passes = <<>>
        /\ global_mesh = EmptyMesh
        /\ Writes("iterm") = {}
        /\ Writes("final") = {}

\* C3: with mapping enabled, an interim file is written right after pass p
\* (before any further push) exactly when p is a positive multiple of the
\* checkpoint interval, and the final map is written exactly once, at the
\* end of the stream and as the last write.
C3_CheckpointCadence ==
    ~odometry_only =>
        /\ \A k \in Writes("iterm") :
              /\ files[k].npass >= 1
              /\ files[k].npass % acc_map_count = 0
              /\ files[k].npush = passes[files[k].npass].npush
        /\ \A p \in 1..Len(passes) :
              LET at == {k \in Writes("iterm") : files[k].npass = p}
                  pending == p = Len(passes) /\ pc \in {"fuse", "checkpoint"}
              IN  IF p % acc_map_count = 0 /\ ~pending
                  THEN Cardinality(at) = 1
                  ELSE at = {}
        /\ IF pc = "done"
           THEN /\ Writes("final") = {Len(files)}
                /\ files[Len(files)].npush = Len(pushed)
                /\ files[Len(files)].npass = Len(passes)
                /\ pbar = <<>>
           ELSE Writes("final") = {}

\* C3 happens: a completed mapping run with an interval of two or more, two
\* interim writes and the final one.
C3_Witness ==
    /\ pc = "done"
    /\ ~odometry_only
    /\ acc_map_count >= 2
    /\ Cardinality(Writes("iterm")) >= 2
    /\ Cardinality(Writes("final")) = 1

\* C4: the loop pushes every index 0, 1, ..., n_scans - 1 once, in
\* increasing order.
C4_EveryIndexOnce ==
    pc = "done" => pushed = [k \in 1..n_scans |-> k - 1]

\* C5: after a push the trigger fires exactly when the number of frames
\* pushed since the last firing has reached K or the frame is the last of
\* the stream; a firing resets scan_count and hands the reconstructor the
\* window as it is, the frame just pushed included.
C5_TriggerRule ==
    [][/\ pc = "trigger" =>
            /\ scan_count + 1 =
                 Len(pushed) - (IF passes = <<>> THEN 0
                                ELSE passes[Len(passes)].npush)
            /\ (pc' = "psr") <=>
                 (scan_count + 1 >= acc_frame_count \/ idx = n_scans - 1)
            /\ pc' = "psr" => scan_count' = 0
            /\ pc' # "psr" => (pc' = "loop" /\ scan_count' = scan_count + 1)
       /\ pc = "psr" =>
            /\ Len(passes') = Len(passes) + 1
            /\ passes'[Len(passes')].window = local_map
            /\ local_map[Len(local_map)] = idx
            /\ pushed[Len(pushed)] = idx
            /\ local_map' = local_map
      ]_vars

\* C5 happens: a firing caused by the count alone, with K >= 2, on a frame
\* that is not the last.
C5_Witness ==
    /\ pc = "fuse"
    /\ idx # n_scans - 1
    /\ scan_count = 0
    /\ acc_frame_count >= 2
    /\ passes[Len(passes)].window[Len(local_map)] = idx

\* C6: the window of every pass holds every frame pushed since the firing
\* before it and at most K - 1 frames of earlier windows, and at the end of
\* the run every pushed frame has been in a window.
C6_WindowCoverage ==
    /\ \A p \in 1..Len(passes) :
          /\ SinceFire(p) \subseteq Range(passes[p].window)
          /\ Cardinality(Range(passes[p].window) \cap Earlier(p))
                <= acc_frame_count - 1
    /\ pc = "done" => Range(pushed) \subseteq Earlier(Len(passes) + 1)

\* C6 happens: a finished run whose last window shares K - 1 >= 1 frames
\* with earlier windows.
C6_Witness ==
    /\ pc = "done"
    /\ acc_frame_count >= 2
    /\ Len(passes) >= 2
    /\ Cardinality(Range(passes[Len(passes)].window) \cap Earlier(Len(passes)))
          = acc_frame_count - 1

\* C7: the window never holds more than K frames, and holds exactly K once
\* K frames have been pushed.
C7_WindowBound ==
    /\ Len(local_map) <= acc_frame_count
    /\ Len(pushed) >= acc_frame_count => Len(local_map) = acc_frame_count

\* C7 happens: more than K frames pushed, the window at K.
C7_Witness ==
    /\ Len(pushed) > acc_frame_count
    /\ Len(local_map) = acc_frame_count

\* C8: the window is the last min(K, pushes) pushed frames, in push order.
C8_Fifo ==
    LET m == IF Len(pushed) < acc_frame_count
             THEN Len(pushed) ELSE acc_frame_count
    IN  local_map = SubSeq(pushed, Len(pushed) - m + 1, Len(pushed))

\* C8 happens: a push into a full window of two or more frames has evicted
\* the oldest.
C8_Witness ==
    /\ acc_frame_count >= 2
    /\ Len(pushed) > acc_frame_count
    /\ pc = "trigger"
    /\ local_map[1] # pushed[1]

\* C9: when K exceeds n_scans >= 1 the window never fills and the run makes
\* exactly one pass, on the last frame, over all n_scans frames.
C9_ShortStream ==
    (pc = "done" /\ n_scans >= 1 /\ acc_frame_count > n_scans) =>
        /\ Len(local_map) < acc_frame_count
        /\ Len(passes) = 1
        /\ passes[1].idx = n_scans - 1
        /\ passes[1].window = [k \in 1..n_scans |-> k - 1]

\* C10: every mesh file written, interim or final, holds the triangles and
\* the vertices of the patches of all the passes made before the write.
C10_FullSnapshot ==
    \A k \in Writes("iterm") \cup Writes("final") :
        /\ GeoTris(files[k].content) =
              UNION {GeoTris(passes[p].patch) : p \in 1..files[k].npass}
        /\ Coords(files[k].content) =
              UNION {Coords(passes[p].patch) : p \in 1..files[k].npass}
        /\ files[k].path = "final" => files[k].npass = Len(passes)

\* C10 happens: a file holding more than the patch of the pass before it.
C10_Witness ==
    \E k \in Writes("iterm") \cup Writes("final") :
        /\ files[k].npass >= 2
        /\ passes[files[k].npass].patch # EmptyMesh
        /\ GeoTris(files[k].content) # GeoTris(passes[files[k].npass].patch)

\* The number of pushes made when the latest interim file was written (0
\* when none has been written).
LastInterimPush ==
    IF Writes("iterm") = {} THEN 0
    ELSE files[CHOOSE k \in Writes("iterm") :
                  \A j \in Writes("iterm") : j <= k].npush

\* C11: in a mapping run the number of frames pushed since the latest
\* interim write (or since the start) never exceeds C * K.
C11_LossBound ==
    ~odometry_only =>
        Len(pushed) - LastInterimPush <= acc_map_count * acc_frame_count

\* C11 happens: C * K frames (C, K >= 2) pushed since the start, the
\* interim write about to be made.
C11_Witness ==
    /\ ~odometry_only
    /\ acc_map_count >= 2
    /\ acc_frame_count >= 2
    /\ pc = "checkpoint"
    /\ Len(pushed) - LastInterimPush = acc_map_count * acc_frame_count

\* C12: no step removes a distinct triangle from the global mesh: its
\* triangles after a step include its triangles before it, and so the
\* triangles after pass i + 1 include those after pass i.
C12_MonotonicCoverage ==
    [][/\ GeoTris(global_mesh) \subseteq GeoTris(global_mesh')
       /\ Coords(global_mesh) \subseteq Coords(global_mesh')
       /\ pc = "fuse" =>
             /\ passes[Len(passes)].before = global_mesh
             /\ GeoTris(mesh) \subseteq GeoTris(global_mesh')
      ]_vars

\* C12 happens: a pass has added a triangle to a global mesh that already
\* held one.
C12_Witness ==
    /\ pc = "checkpoint"
    /\ Len(passes) >= 2
    /\ GeoTris(passes[Len(passes)].before) # {}
    /\ GeoTris(passes[Len(passes)].before) # GeoTris(global_mesh)
    /\ GeoTris(passes[Len(passes)].before) \subseteq GeoTris(global_mesh)

\* C13: fusing an empty patch leaves the triangles and the vertices of the
\* global mesh as they were, and the run goes on to the checkpoint step.
C13_EmptyPatchIdentity ==
    [][(pc = "fuse" /\ mesh = EmptyMesh) =>
          /\ GeoTris(global_mesh') = GeoTris(global_mesh)
          /\ Coords(global_mesh') = Coords(global_mesh)
          /\ global_mesh'.vertices = global_mesh.vertices
          /\ pc' = "checkpoint"
      ]_vars

\* C13 happens: an empty patch has been fused into a global mesh that held
\* a triangle.
C13_Witness ==
    /\ pc = "checkpoint"
    /\ mesh = EmptyMesh
    /\ passes[Len(passes)].patch = EmptyMesh
    /\ GeoTris(passes[Len(passes)].before) # {}
    /\ GeoTris(global_mesh) = GeoTris(passes[Len(passes)].before)

\* C14: with zero scans the run does not complete normally and writes no
\* mesh file.
C14_ZeroScansFatal ==
    n_scans = 0 =>
        /\ pc # "done"
        /\ Writes("iterm") = {}
        /\ Writes("final") = {}

\* C15: the mesh a fusion leaves (triangle dedup, then vertex dedup, of the
\* union) is unchanged by running the two dedup steps again.
C15_DedupIdempotent ==
    pc = "checkpoint" => Dedup(global_mesh) = global_mesh

\* C16: the configuration file is written once, as the first thing the run
\* does: before any scan is read or pushed, before any pass and before any
\* mesh file.
C16_SidecarFirst ==
    /\ pc = "config" =>
          /\ files = <<>>
          /\ pushed = <<>>
          /\ passes = <<>>
          /\ idx = -1
    /\ pc # "config" =>
          /\ Writes("yml") = {1}
          /\ files[1].npush = 0
          /\ files[1].npass = 0

\* C16 happens: a finished run that pushed frames and wrote mesh files
\* after its one configuration file.
C16_Witness ==
    /\ pc = "done"
    /\ Len(pushed) >= 2
    /\ Writes("iterm") # {}
    /\ Writes("final") # {}
    /\ Cardinality(Writes("yml")) = 1

\* The number of pushes made at the latest firing of the trigger, and the
\* number of passes made when the latest interim file was written.
LastFirePush ==
    IF pc = "psr" THEN Len(pushed)
    ELSE IF passes = <<>> THEN 0
    ELSE passes[Len(passes)].npush

LastInterimPass ==
    IF Writes("iterm") = {} THEN 0
    ELSE files[CHOOSE k \in Writes("iterm") :
                  \A j \in Writes("iterm") : j <= k].npass

\* The counters against the history.  Between the append of line 148 and
\* the increment of line 157 scan_count is one behind, and between the pass
\* of line 162 and the increment of line 170 map_count is one behind.
CountersMatch ==
    /\ scan_count >= 0
    /\ map_count >= 0
    /\ scan_count = Len(pushed) - LastFirePush
                      - (IF pc = "trigger" THEN 1 ELSE 0)
    /\ map_count = Len(passes) - LastInterimPass
                      - (IF pc \in {"fuse", "checkpoint"} THEN 1 ELSE 0)

\* C17: scan_count is the number of frames pushed since the last firing and
\* map_count the number of passes since the last interim write; each grows
\* by one at a time, drops only to 0, scan_count only on a firing and
\* map_count only on an interim write, and neither is ever negative.
C17_Counters ==
    [][/\ CountersMatch
       /\ CountersMatch'
       /\ scan_count' \in {scan_count, scan_count + 1, 0}
       /\ map_count' \in {map_count, map_count + 1, 0}
       /\ (pc = "trigger" /\ pc' = "psr") => scan_count' = 0
       /\ scan_count' < scan_count => (pc = "trigger" /\ pc' = "psr")
       /\ scan_count' > scan_count => (pc = "trigger" /\ pc' = "loop")
       /\ Writes("iterm")' # Writes("iterm") => map_count' = 0
       /\ map_count' < map_count => Writes("iterm")' # Writes("iterm")
       /\ map_count' > map_count => (pc = "checkpoint" /\ files' = files)
      ]_vars

\* C17 happens: after a firing, a frame counted by scan_count and a pass
\* counted by map_count.
C17_Witness ==
    /\ pc = "loop"
    /\ Len(passes) >= 1
    /\ scan_count = 1
    /\ map_count = 1

\* C18: the steps of a firing (trigger, reconstruction, fusion, checkpoint)
\* leave the window as it is; the window changes only by a push, which
\* appends the new frame and drops the oldest only when the window is full.
C18_WindowUntouched ==
    [][/\ pc \in {"trigger", "psr", "fuse", "checkpoint"} =>
             local_map' = local_map
       /\ local_map' # local_map =>
             /\ pc = "loop"
             /\ pc' = "trigger"
             /\ \/ local_map' = Append(local_map, idx')
                \/ /\ Len(local_map) = acc_frame_count
                   /\ local_map' = Append(Tail(local_map), idx')
      ]_vars

\* C18 happens: after a firing that wrote an interim file the window still
\* holds the frames it handed to the reconstructor.
C18_Witness ==
    /\ pc = "loop"
    /\ Len(passes) >= 1
    /\ Len(local_map) >= 2
    /\ local_map = passes[Len(passes)].window
    /\ Writes("iterm") # {}
    /\ files[Len(files)].npass = Len(passes)

\* The windows of passes p and q share no frame.
Disjoint(p, q) ==
    Range(passes[p].window) \cap Range(passes[q].window) = {}

\* Pass p was fired by scan_count reaching K.
CountFired(p) == Cardinality(SinceFire(p)) = acc_frame_count

\* C19: a pass fired by scan_count reaching K gets exactly the K frames
\* pushed since the firing before it, so such passes have pairwise disjoint
\* windows; a window shares frames with an earlier one only at the firing
\* on the last frame, and only when fewer than K frames were pushed since
\* the firing before it.
C19_DisjointFullWindows ==
    \A p \in 1..Len(passes) :
        /\ Cardinality(SinceFire(p)) <= acc_frame_count
        /\ passes[p].idx # n_scans - 1 => CountFired(p)
        /\ CountFired(p) =>
              /\ Range(passes[p].window) = SinceFire(p)
              /\ Len(passes[p].window) = acc_frame_count
              /\ \A q \in 1..(p - 1) : CountFired(q) => Disjoint(p, q)
        /\ Range(passes[p].window) \cap Earlier(p) # {} =>
              /\ passes[p].idx = n_scans - 1
              /\ Cardinality(SinceFire(p)) < acc_frame_count

\* C19 happens: a pass fired by the count with K >= 2, then the firing on
\* the last frame with a window that reaches back into the first.
C19_Witness ==
    /\ acc_frame_count >= 2
    /\ Len(passes) = 2
    /\ CountFired(1)
    /\ ~CountFired(2)
    /\ ~Disjoint(1, 2)

\* C20: at the end of every loop iteration scan_count is within 0..K-1 and
\* map_count within 0..C-1.
C20_CountersBelowThreshold ==
    (pc \in {"loop", "done"}) =>
        /\ 0 <= scan_count
        /\ scan_count <= acc_frame_count - 1
        /\ 0 <= map_count
        /\ map_count <= acc_map_count - 1

\* C20 happens: the run has ended on a firing made by the last frame alone,
\* with map_count at C - 1 >= 1.
C20_Witness ==
    /\ pc = "done"
    /\ Len(passes) >= 1
    /\ ~CountFired(Len(passes))
    /\ scan_count = 0
    /\ acc_map_count >= 2
    /\ map_count = acc_map_count - 1

====
